---- MODULE Spec2Model ----
(***************************************************************************)
(* Drivers of the streaming reductions framework: sample_fold and          *)
(* sample_chain of tensorflow_probability/python/experimental/mcmc/        *)
(* sample_fold.py, together with the kernel onion they compose             *)
(* (WithReductions around SampleDiscardingKernel around the caller's       *)
(* kernel), the loop primitive step_kernel and the reducers they drive.    *)
(***************************************************************************)
EXTENDS Integers, Sequences, FiniteSets, TLC

\* Bounds of the explored inputs.
MaxSteps == 3      \* num_steps / num_results range over 0..MaxSteps
MaxBurnin == 1     \* num_burnin_steps ranges over 0..MaxBurnin
MaxBetween == 1    \* num_steps_between_results ranges over 0..MaxBetween
MaxStart == 1      \* a caller keeps an end_state for a later call only up to this value

(***************************************************************************)
(* Values.  Python's None is a record of its own so that it compares with  *)
(* every kernel-results record; nested structures are trees.               *)
(***************************************************************************)
NoneKR == [layer |-> "None"]
NoneTree == [tag |-> "None"]
Leaf(x) == [tag |-> "leaf", val |-> x]
Node(ks) == [tag |-> "node", kids |-> ks]

HasAttr(r, f) == f \in DOMAIN r

\* The leaves of a structure in flattening order (tf.nest.flatten).
RECURSIVE Flatten(_)
Flatten(t) ==
  IF t.tag = "leaf" THEN <<t.val>>
  ELSE IF t.kids = <<>> THEN <<>>
  ELSE Flatten(t.kids[1]) \o Flatten(Node(Tail(t.kids)))

(***************************************************************************)
(* The caller-supplied TransitionKernel: deterministic, adds `inc` to the  *)
(* state per step; its kernel results count the steps taken since          *)
(* bootstrap.                                                              *)
(***************************************************************************)
KernelBootstrapResults(k, state) == [layer |-> "kernel", n |-> 0]

KernelOneStep(k, state, kr) ==
  [state |-> state + k.inc, kr |-> [layer |-> "kernel", n |-> kr.n + 1]]

\* m successive steps of kernel k; trail lists the states produced, in order.
RECURSIVE RunInner(_, _, _, _)
RunInner(k, state, kr, m) ==
  IF m = 0 THEN [state |-> state, kr |-> kr, trail |-> <<>>]
  ELSE LET o == KernelOneStep(k, state, kr)
           r == RunInner(k, o.state, o.kr, m - 1)
       IN [state |-> r.state, kr |-> r.kr, trail |-> <<o.state>> \o r.trail]

(***************************************************************************)
(* SampleDiscardingKernel (thinning adapter).                              *)
(***************************************************************************)
SDKBootstrapResults(sdk, state) ==
  [layer |-> "SampleDiscardingKernel", call_counter |-> 0,
   inner_results |-> KernelBootstrapResults(sdk.inner_kernel, state)]

SDKOneStep(sdk, state, kr) ==
  LET skip == IF kr.call_counter = 0
              THEN sdk.num_burnin_steps + sdk.num_steps_between_results
              ELSE sdk.num_steps_between_results
      r == RunInner(sdk.inner_kernel, state, kr.inner_results, skip + 1)
  IN [state |-> r.state,
      kr |-> [layer |-> "SampleDiscardingKernel",
              call_counter |-> kr.call_counter + 1,
              inner_results |-> r.kr],
      trail |-> r.trail]

(***************************************************************************)
(* Reducers: initialize / one_step / finalize.  The running statistics     *)
(* keep (n, sum); the TracingReducer keeps the buffer of what its trace_fn *)
(* returned for each sample.                                               *)
(***************************************************************************)
\* The callbacks a trace_fn can be: the default of sample_chain (line 189),
\* the replacement for None (line 201), and two caller-written callbacks.
TraceFnApply(fn, state, kr) ==
  CASE fn = "DEFAULT" -> kr
    [] fn = "NO_TRACE" -> <<>>
    [] fn = "user_kr" -> kr
    [] fn = "user_state" -> state

\* The combinator sample_chain hands to the TracingReducer (line 213).
CombinedTraceFn(trace_fn, curr_state, kr) ==
  <<curr_state, TraceFnApply(trace_fn, curr_state, kr)>>

ReducerInitialize(r, state) ==
  IF r.kind = "trace" THEN [buf |-> <<>>] ELSE [n |-> 0, sum |-> 0]

ReducerOneStep(r, sample, acc, kr) ==
  IF r.kind = "trace"
  THEN IF Len(acc.buf) < r.size
       THEN [buf |-> Append(acc.buf, CombinedTraceFn(r.trace_fn, sample, kr))]
       ELSE acc
  ELSE [n |-> acc.n + 1, sum |-> acc.sum + sample]

\* The structure `lambda *args: ()` returns has no leaves.
IsEmptyStructure(trace_fn) == trace_fn = "NO_TRACE"

\* Stacking a buffer of structures: an empty structure stacks to itself.
ReducerFinalize(r, acc) ==
  CASE r.kind = "trace" ->
         <<[j \in 1..Len(acc.buf) |-> acc.buf[j][1]],
           IF IsEmptyStructure(r.trace_fn)
           THEN <<>>
           ELSE [j \in 1..Len(acc.buf) |-> acc.buf[j][2]]>>
    [] r.kind = "count" -> acc.n
    [] r.kind = "sum" -> acc.sum
    [] r.kind = "mean" -> IF acc.n = 0 THEN 0 ELSE acc.sum \div acc.n

\* How many samples an accumulator has absorbed.
AccUpdates(acc) == IF HasAttr(acc, "buf") THEN Len(acc.buf) ELSE acc.n

(***************************************************************************)
(* WithReductions (reduction adapter).                                     *)
(***************************************************************************)
RECURSIVE InitTree(_, _)
InitTree(reducer, state) ==
  IF reducer.tag = "leaf" THEN Leaf(ReducerInitialize(reducer.val, state))
  ELSE Node([j \in 1..Len(reducer.kids) |-> InitTree(reducer.kids[j], state)])

RECURSIVE StepTree(_, _, _, _)
StepTree(reducer, sample, sc, kr) ==
  IF reducer.tag = "leaf"
  THEN Leaf(ReducerOneStep(reducer.val, sample, sc.val, kr))
  ELSE Node([j \in 1..Len(reducer.kids) |->
               StepTree(reducer.kids[j], sample, sc.kids[j], kr)])

WRBootstrapResults(wr, state) ==
  [layer |-> "WithReductions",
   streaming_calculations |-> InitTree(wr.reducer, state),
   inner_results |-> SDKBootstrapResults(wr.inner_kernel, state)]

\* previous_kernel_results must carry both fields of the WithReductions layer.
WROneStepRaises(wr, kr) ==
  ~(HasAttr(kr, "inner_results") /\ HasAttr(kr, "streaming_calculations"))

WROneStep(wr, state, kr) ==
  LET o == SDKOneStep(wr.inner_kernel, state, kr.inner_results)
  IN [state |-> o.state,
      kr |-> [layer |-> "WithReductions",
              streaming_calculations |->
                StepTree(wr.reducer, o.state, kr.streaming_calculations, o.kr),
              inner_results |-> o.kr],
      trail |-> o.trail]

(***************************************************************************)
(* sample_fold, lines 104-141.                                             *)
(***************************************************************************)
\* lines 110-113
NormalizeReducer(reducer) ==
  IF reducer.tag = "None"
  THEN [reducer |-> Node(<<>>), reducer_was_none |-> TRUE]
  ELSE [reducer |-> reducer, reducer_was_none |-> FALSE]

\* A mutant: burn-in and thinning handed over in each other's place.
ReductionKernel_Swapped(kernel, reducer, num_burnin_steps, num_steps_between_results) ==
  [cls |-> "WithReductions",
   inner_kernel |-> [cls |-> "SampleDiscardingKernel",
                     inner_kernel |-> kernel,
                     num_burnin_steps |-> num_steps_between_results,
                     num_steps_between_results |-> num_burnin_steps],
   reducer |-> reducer]

\* lines 114-120
ReductionKernel(kernel, reducer, num_burnin_steps, num_steps_between_results) ==
  [cls |-> "WithReductions",
   inner_kernel |-> [cls |-> "SampleDiscardingKernel",
                     inner_kernel |-> kernel,
                     num_burnin_steps |-> num_burnin_steps,
                     num_steps_between_results |-> num_steps_between_results],
   reducer |-> reducer]

\* nest.map_structure_up_to(reducer, lambda r, s: r.finalize(s), reducer, s):
\* the traversal stops at the leaves of the shallow structure.
RECURSIVE FinalizeUpTo(_, _, _)
FinalizeUpTo(shallow, r, s) ==
  IF shallow.tag = "leaf" THEN Leaf(ReducerFinalize(r.val, s.val))
  ELSE Node([j \in 1..Len(shallow.kids) |->
               FinalizeUpTo(shallow.kids[j], r.kids[j], s.kids[j])])

Event(ev, who, val) == [ev |-> ev, who |-> who, val |-> val]

\* A mutant: a reducer that saw no sample is not finalized.
FinalizeCalls_SkipsUntouched(reducer, final_kernel_results) ==
  LET rs == Flatten(reducer)
      sc == Flatten(final_kernel_results.streaming_calculations)
  IN IF \A j \in 1..Len(sc) : AccUpdates(sc[j]) = 0 THEN <<>>
     ELSE [j \in 1..Len(rs) |-> Event("finalize", rs[j].id, AccUpdates(sc[j]))]

\* lines 131-136: the finalize calls the traversal makes, in order, each
\* with the number of samples its accumulator has absorbed.
FinalizeCalls(reducer, final_kernel_results) ==
  LET rs == Flatten(reducer)
      sc == Flatten(final_kernel_results.streaming_calculations)
  IN [j \in 1..Len(rs) |-> Event("finalize", rs[j].id, AccUpdates(sc[j]))]

\* A mutant: the empty structure is returned although reducer was None.
ReductionResults_KeepsEmpty(reducer, reducer_was_none, final_kernel_results) ==
  FinalizeUpTo(reducer, reducer, final_kernel_results.streaming_calculations)

\* lines 131-138
ReductionResults(reducer, reducer_was_none, final_kernel_results) ==
  IF reducer_was_none THEN NoneTree
  ELSE FinalizeUpTo(reducer, reducer, final_kernel_results.streaming_calculations)

\* Lines 135 and 141 read these attributes of step_kernel's final results.
SampleFoldReturnRaises(final_kernel_results) ==
  IF ~HasAttr(final_kernel_results, "streaming_calculations") THEN TRUE
  ELSE IF ~HasAttr(final_kernel_results, "inner_results") THEN TRUE
  ELSE ~HasAttr(final_kernel_results.inner_results, "inner_results")

\* A mutant: only the WithReductions layer is stripped.
InnerMostResults_OneLayer(final_kernel_results) ==
  final_kernel_results.inner_results

\* line 141
InnerMostResults(final_kernel_results) ==
  final_kernel_results.inner_results.inner_results

\* lines 139-141
SampleFoldReturn(reducer, reducer_was_none, end_state, final_kernel_results) ==
  [reduction_results |->
     ReductionResults(reducer, reducer_was_none, final_kernel_results),
   end_state |-> end_state,
   final_kernel_results |-> InnerMostResults(final_kernel_results)]

(***************************************************************************)
(* sample_chain, lines 182-239.                                            *)
(***************************************************************************)
\* sample_chain.__defaults__ (lines 185-193), one entry per defaulted
\* parameter; Python counts them from 0, so __defaults__[4] is entry 5.
SampleChainDefaults ==
  <<"None", "None", "0", "0", "DEFAULT", "False", "10", "None", "None">>

\* A mutant: the test of the flag is inverted.
CalibrationWarnings_Inverted(kernel) ==
  IF kernel.is_calibrated THEN <<"not_calibrated">> ELSE <<>>

\* lines 196-198
CalibrationWarnings(kernel) ==
  IF ~kernel.is_calibrated THEN <<"not_calibrated">> ELSE <<>>

\* lines 200-204
ResolveTraceFn(trace_fn) ==
  IF trace_fn = "None"
  THEN [trace_fn |-> "NO_TRACE", no_trace |-> TRUE]
  ELSE [trace_fn |-> trace_fn, no_trace |-> FALSE]

\* A mutant: every callback that is not None is taken for the default.
DeprecationWarnings_AnyCallback(trace_fn) ==
  IF trace_fn # "NO_TRACE" THEN <<"default_trace_deprecated">> ELSE <<>>

\* lines 206-210
DeprecationWarnings(trace_fn) ==
  IF trace_fn = SampleChainDefaults[5]
  THEN <<"default_trace_deprecated">> ELSE <<>>

\* A mutant: the buffer is one entry short.
TracingReducer_ShortBuffer(trace_fn, num_results) ==
  Leaf([id |-> "tracing", kind |-> "trace",
        trace_fn |-> trace_fn, size |-> num_results - 1])

\* lines 212-215
TracingReducer(trace_fn, num_results) ==
  Leaf([id |-> "tracing", kind |-> "trace",
        trace_fn |-> trace_fn, size |-> num_results])

\* A mutant: the thinning interval is not forwarded to sample_fold.
ChainFoldArgs_NoThinning(num_results, current_state, previous_kernel_results, tracing_reducer, num_burnin_steps, num_steps_between_results) ==
  [num_steps |-> num_results, current_state |-> current_state,
   previous_kernel_results |-> previous_kernel_results,
   reducer |-> tracing_reducer, num_burnin_steps |-> num_burnin_steps,
   num_steps_between_results |-> 0]

\* lines 216-227
ChainFoldArgs(num_results, current_state, previous_kernel_results, tracing_reducer, num_burnin_steps, num_steps_between_results) ==
  [num_steps |-> num_results, current_state |-> current_state,
   previous_kernel_results |-> previous_kernel_results,
   reducer |-> tracing_reducer, num_burnin_steps |-> num_burnin_steps,
   num_steps_between_results |-> num_steps_between_results]

\* A mutant: the trace is dropped whenever it was suppressed.
SampleChainReturn_NoTraceFirst(trace_results, final_kernel_results, return_final_kernel_results, no_trace) ==
  IF no_trace
  THEN [shape |-> "all_states", all_states |-> trace_results.val[1]]
  ELSE IF return_final_kernel_results
  THEN [shape |-> "CheckpointableStatesAndTrace",
        all_states |-> trace_results.val[1], trace |-> trace_results.val[2],
        final_kernel_results |-> final_kernel_results]
  ELSE [shape |-> "StatesAndTrace",
        all_states |-> trace_results.val[1], trace |-> trace_results.val[2]]

\* lines 229-239
SampleChainReturn(trace_results, final_kernel_results, return_final_kernel_results, no_trace) ==
  LET all_states == trace_results.val[1]
      trace == trace_results.val[2]
  IN IF return_final_kernel_results
     THEN [shape |-> "CheckpointableStatesAndTrace",
           all_states |-> all_states, trace |-> trace,
           final_kernel_results |-> final_kernel_results]
     ELSE IF no_trace
     THEN [shape |-> "all_states", all_states |-> all_states]
     ELSE [shape |-> "StatesAndTrace", all_states |-> all_states, trace |-> trace]

(***************************************************************************)
(* State.                                                                  *)
(***************************************************************************)
VARIABLES
  kernel,    \* the caller's TransitionKernel: [inc, is_calibrated]
  saved,     \* what the caller kept of an earlier call: end_state, final_kernel_results
  pc,        \* "idle", "step_kernel", "loop", "chain_unpack", "done", "raised"
  entry,     \* the function the caller called: "sample_fold" or "sample_chain"
  mode,      \* how the call was started: "cold", "continue" (cold, from a kept
             \* end_state) or "warm" (kept end_state and final_kernel_results)
  fold,      \* sample_fold's arguments and locals
  chn,       \* sample_chain's arguments and locals
  i,         \* step_kernel: iterations done
  state,     \* step_kernel: the chain state
  kr,        \* step_kernel: the kernel results of the kernel it drives
  warnings,  \* the warnings emitted during the call, in order
  log,       \* history: the kernel steps and reducer calls of the call, in order
  exposed,   \* history: per loop iteration, the state and the kernel results
             \* the reduction kernel handed to the reducers
  ret,       \* what sample_fold returned
  result     \* what the caller received

vars == <<kernel, saved, pc, entry, mode, fold, chn, i, state, kr, warnings,
          log, exposed, ret, result>>

NoSaved == [has |-> FALSE, end_state |-> 0, final_kernel_results |-> NoneKR]
NoRet == [reduction_results |-> NoneTree, end_state |-> 0,
          final_kernel_results |-> NoneKR]
NoResult == [shape |-> "None"]
NoChain == [num_results |-> 0, current_state |-> 0, num_burnin_steps |-> 0,
            num_steps_between_results |-> 0,
            trace_fn_arg |-> "None", trace_fn |-> "None", no_trace |-> FALSE,
            return_final_kernel_results |-> FALSE]
NoFold == [num_steps |-> 0, current_state |-> 0,
           previous_kernel_results |-> NoneKR, reducer_arg |-> NoneTree,
           reducer |-> Node(<<>>), reducer_was_none |-> FALSE,
           num_burnin_steps |-> 0, num_steps_between_results |-> 0,
           reduction_kernel |-> [cls |-> "None"]]

\* The reducer structures a caller of sample_fold passes: None, a single
\* reducer, an empty structure, a two-level structure of three reducers.
SingleReducer == Leaf([id |-> "r1", kind |-> "mean"])
EmptyReducers == Node(<<>>)
NestedReducers ==
  Node(<<Leaf([id |-> "r1", kind |-> "count"]),
         Node(<<Leaf([id |-> "r2", kind |-> "sum"]),
                Leaf([id |-> "r3", kind |-> "mean"])>>)>>)
ReducerArgs == {NoneTree, SingleReducer, EmptyReducers, NestedReducers}

TraceFnArgs == {"None", "DEFAULT", "user_kr", "user_state"}
StartModes == {"cold", "continue", "warm"}

CurrentStateOf(m) == IF m = "cold" THEN 0 ELSE saved.end_state
PreviousKernelResultsOf(m) ==
  IF m = "warm" THEN saved.final_kernel_results ELSE NoneKR

\* sample_fold up to its call of step_kernel, lines 104-120.
FoldLocals(a) ==
  LET nr == NormalizeReducer(a.reducer)
  IN [num_steps |-> a.num_steps, current_state |-> a.current_state,
      previous_kernel_results |-> a.previous_kernel_results,
      reducer_arg |-> a.reducer,
      reducer |-> nr.reducer, reducer_was_none |-> nr.reducer_was_none,
      num_burnin_steps |-> a.num_burnin_steps,
      num_steps_between_results |-> a.num_steps_between_results,
      reduction_kernel |->
        ReductionKernel(kernel, nr.reducer, a.num_burnin_steps,
                        a.num_steps_between_results)]

Init ==
  /\ kernel \in [inc : {0, 1}, is_calibrated : BOOLEAN]
  /\ saved = NoSaved
  /\ pc = "idle"
  /\ entry = "none"
  /\ mode = "cold"
  /\ fold = NoFold
  /\ chn = NoChain
  /\ i = 0
  /\ state = 0
  /\ kr = NoneKR
  /\ warnings = <<>>
  /\ log = <<>>
  /\ exposed = <<>>
  /\ ret = NoRet
  /\ result = NoResult

\* The caller calls sample_fold (lines 104-120).
SampleFoldEntry ==
  /\ pc = "idle"
  /\ \E m \in StartModes, n \in 0..MaxSteps, b \in 0..MaxBurnin,
        t \in 0..MaxBetween, r \in ReducerArgs :
       /\ m # "cold" => saved.has
       /\ mode' = m
       /\ fold' = FoldLocals(
            [num_steps |-> n, current_state |-> CurrentStateOf(m),
             previous_kernel_results |-> PreviousKernelResultsOf(m),
             reducer |-> r, num_burnin_steps |-> b,
             num_steps_between_results |-> t])
  /\ entry' = "sample_fold"
  /\ chn' = NoChain
  /\ pc' = "step_kernel"
  /\ warnings' = <<>>
  /\ log' = <<>>
  /\ exposed' = <<>>
  /\ ret' = NoRet
  /\ result' = NoResult
  /\ UNCHANGED <<kernel, saved, i, state, kr>>

\* The caller calls sample_chain (lines 195-227, and sample_fold's 104-120).
SampleChainEntry ==
  /\ pc = "idle"
  /\ \E m \in StartModes, n \in 0..MaxSteps, b \in 0..MaxBurnin,
        t \in 0..MaxBetween, f \in TraceFnArgs, rf \in BOOLEAN :
       LET tf == ResolveTraceFn(f)
       IN /\ m # "cold" => saved.has
          /\ mode' = m
          /\ warnings' = CalibrationWarnings(kernel)
                           \o DeprecationWarnings(tf.trace_fn)
          /\ chn' = [num_results |-> n, current_state |-> CurrentStateOf(m),
                     num_burnin_steps |-> b, num_steps_between_results |-> t,
                     trace_fn_arg |-> f, trace_fn |-> tf.trace_fn,
                     no_trace |-> tf.no_trace,
                     return_final_kernel_results |-> rf]
          /\ fold' = FoldLocals(
               ChainFoldArgs(n, CurrentStateOf(m), PreviousKernelResultsOf(m),
                             TracingReducer(tf.trace_fn, n), b, t))
  /\ entry' = "sample_chain"
  /\ pc' = "step_kernel"
  /\ log' = <<>>
  /\ exposed' = <<>>
  /\ ret' = NoRet
  /\ result' = NoResult
  /\ UNCHANGED <<kernel, saved, i, state, kr>>

\* step_kernel before its loop: bootstrap unless previous_kernel_results is given.
StepKernelStart ==
  /\ pc = "step_kernel"
  /\ i' = 0
  /\ state' = fold.current_state
  /\ IF fold.previous_kernel_results = NoneKR
     THEN /\ kr' = WRBootstrapResults(fold.reduction_kernel, fold.current_state)
          /\ log' = [j \in 1..Len(Flatten(fold.reducer)) |->
                       Event("initialize", Flatten(fold.reducer)[j].id, 0)]
     ELSE /\ kr' = fold.previous_kernel_results
          /\ log' = <<>>
  /\ pc' = "loop"
  /\ UNCHANGED <<kernel, saved, entry, mode, fold, chn, warnings, exposed, ret,
                 result>>

\* One iteration of step_kernel's loop: one step of the reduction kernel.
StepKernelIter ==
  /\ pc = "loop"
  /\ i < fold.num_steps
  /\ ~WROneStepRaises(fold.reduction_kernel, kr)
  /\ LET o == WROneStep(fold.reduction_kernel, state, kr)
         rs == Flatten(fold.reducer)
     IN /\ state' = o.state
        /\ kr' = o.kr
        /\ exposed' = Append(exposed, [state |-> o.state, kr |-> o.kr.inner_results])
        /\ log' = log
                  \o [j \in 1..Len(o.trail) |-> Event("kernel_step", "kernel", o.trail[j])]
                  \o [j \in 1..Len(rs) |-> Event("one_step", rs[j].id, o.state)]
  /\ i' = i + 1
  /\ UNCHANGED <<kernel, saved, pc, entry, mode, fold, chn, warnings, ret, result>>

\* The reduction kernel's one_step raises AttributeError; nothing is returned.
StepKernelIterRaises ==
  /\ pc = "loop"
  /\ i < fold.num_steps
  /\ WROneStepRaises(fold.reduction_kernel, kr)
  /\ pc' = "raised"
  /\ UNCHANGED <<kernel, saved, entry, mode, fold, chn, i, state, kr, warnings,
                 log, exposed, ret, result>>

\* step_kernel has returned; sample_fold finalizes and returns (lines 131-141).
SampleFoldFinish ==
  /\ pc = "loop"
  /\ i = fold.num_steps
  /\ ~SampleFoldReturnRaises(kr)
  /\ LET r == SampleFoldReturn(fold.reducer, fold.reducer_was_none, state, kr)
     IN /\ ret' = r
        /\ log' = log \o FinalizeCalls(fold.reducer, kr)
        /\ IF entry = "sample_fold"
           THEN /\ pc' = "done"
                /\ result' = [shape |-> "sample_fold",
                              reduction_results |-> r.reduction_results,
                              end_state |-> r.end_state,
                              final_kernel_results |-> r.final_kernel_results]
           ELSE /\ pc' = "chain_unpack"
                /\ result' = result
  /\ UNCHANGED <<kernel, saved, entry, mode, fold, chn, i, state, kr, warnings,
                 exposed>>

\* Line 135 or 141 raises AttributeError on step_kernel's final results.
SampleFoldFinishRaises ==
  /\ pc = "loop"
  /\ i = fold.num_steps
  /\ SampleFoldReturnRaises(kr)
  /\ pc' = "raised"
  /\ UNCHANGED <<kernel, saved, entry, mode, fold, chn, i, state, kr, warnings,
                 log, exposed, ret, result>>

\* sample_chain unpacks sample_fold's result and returns (lines 229-239).
SampleChainFinish ==
  /\ pc = "chain_unpack"
  /\ result' = SampleChainReturn(ret.reduction_results, ret.final_kernel_results,
                                 chn.return_final_kernel_results, chn.no_trace)
  /\ pc' = "done"
  /\ UNCHANGED <<kernel, saved, entry, mode, fold, chn, i, state, kr, warnings,
                 log, exposed, ret>>

\* The call is over: its frames are gone.
CallEnds ==
  /\ pc' = "idle"
  /\ entry' = "none"
  /\ mode' = "cold"
  /\ fold' = NoFold
  /\ chn' = NoChain
  /\ i' = 0
  /\ state' = 0
  /\ kr' = NoneKR
  /\ warnings' = <<>>
  /\ log' = <<>>
  /\ exposed' = <<>>
  /\ ret' = NoRet
  /\ result' = NoResult

\* The caller has the result, and may keep the end state and the final
\* kernel results for a later call.
CallerKeeps ==
  /\ pc = "done"
  /\ result.shape \in {"sample_fold", "CheckpointableStatesAndTrace"}
  /\ ret.end_state <= MaxStart
  /\ saved' = [has |-> TRUE, end_state |-> ret.end_state,
               final_kernel_results |-> result.final_kernel_results]
  /\ CallEnds
  /\ UNCHANGED kernel

\* The caller has the result or the exception, and keeps nothing new.
CallerMovesOn ==
  /\ pc \in {"done", "raised"}
  /\ CallEnds
  /\ UNCHANGED <<kernel, saved>>

Next ==
  \/ SampleFoldEntry
  \/ SampleChainEntry
  \/ StepKernelStart
  \/ StepKernelIter
  \/ StepKernelIterRaises
  \/ SampleFoldFinish
  \/ SampleFoldFinishRaises
  \/ SampleChainFinish
  \/ CallerKeeps
  \/ CallerMovesOn

Spec == Init /\ [][Next]_vars

(***************************************************************************)
(* What the claims speak of.                                               *)
(***************************************************************************)
Reducers == Flatten(fold.reducer)
ReducerIds == {Reducers[j].id : j \in 1..Len(Reducers)}
Positions(ev, who) == {p \in 1..Len(log) : log[p].ev = ev /\ log[p].who = who}
Count(ev, who) == Cardinality(Positions(ev, who))
KernelStepsBefore(p) ==
  Cardinality({q \in 1..(p - 1) : log[q].ev = "kernel_step"})
\* The rank of the event at p among the events of its kind and reducer.
Ordinal(p) ==
  Cardinality({q \in 1..p : log[q].ev = log[p].ev /\ log[q].who = log[p].who})
ColdStart == fold.previous_kernel_results = NoneKR
\* Underlying kernel steps taken when the j-th sample is exposed.
StepsAt(j) ==
  fold.num_burnin_steps + j * (fold.num_steps_between_results + 1)
\* The chain state a deterministic kernel has reached by then.
SampleAt(j) == fold.current_state + kernel.inc * StepsAt(j)
\* The same, from the arguments of sample_chain.
ChainSampleAt(j) ==
  chn.current_state
  + kernel.inc * (chn.num_burnin_steps
                  + j * (chn.num_steps_between_results + 1))

RECURSIVE PathsOf(_)
PathsOf(t) ==
  IF t.tag # "node" THEN {<<>>}
  ELSE {<<>>} \cup UNION {{<<j>> \o q : q \in PathsOf(t.kids[j])} :
                           j \in 1..Len(t.kids)}
RECURSIVE At(_, _)
At(t, path) == IF path = <<>> THEN t ELSE At(t.kids[Head(path)], Tail(path))

(***************************************************************************)
(* C1, as claimed: a cold-start call that has returned applied every       *)
(* reducer's one_step num_steps times and advanced the caller's kernel     *)
(* num_burnin_steps + num_steps * (num_steps_between_results + 1) times.   *)
(***************************************************************************)
C1_AsClaimed ==
  (pc = "done" /\ ColdStart) =>
    /\ \A r \in ReducerIds : Count("one_step", r) = fold.num_steps
    /\ Count("kernel_step", "kernel") = StepsAt(fold.num_steps)

(***************************************************************************)
(* C1, amended: a cold-start call that has returned applied every          *)
(* reducer's one_step num_steps times; it advanced the caller's kernel     *)
(* B + N*(T+1) times when N >= 1 and not at all when N = 0 (the burn-in    *)
(* steps are part of the first exposed step); the returned kernel results  *)
(* have counted the same number of steps.                                  *)
(***************************************************************************)
C1_StepAccounting ==
  (pc = "done" /\ ColdStart) =>
    LET steps == IF fold.num_steps = 0 THEN 0 ELSE StepsAt(fold.num_steps)
    IN /\ \A r \in ReducerIds : Count("one_step", r) = fold.num_steps
       /\ Count("kernel_step", "kernel") = steps
       /\ ret.final_kernel_results.n = steps
       /\ ret.end_state = fold.current_state + kernel.inc * steps

C1_Witness ==
  /\ pc = "done" /\ ColdStart /\ entry = "sample_fold"
  /\ fold.reducer_arg = NestedReducers
  /\ fold.num_steps = 2 /\ fold.num_burnin_steps = 1
  /\ fold.num_steps_between_results = 1
  /\ Count("kernel_step", "kernel") = 5
  /\ Count("one_step", "r3") = 2

(***************************************************************************)
(* C2: the j-th sample handed to the reducers is the chain state after     *)
(* exactly B + j*(T+1) steps of the caller's kernel from current_state,    *)
(* and sample_chain's all_states lists these samples in order.             *)
(***************************************************************************)
C2_ExposedSamples ==
  /\ \A p \in 1..Len(log) :
       log[p].ev = "one_step" =>
         /\ KernelStepsBefore(p) = StepsAt(Ordinal(p))
         /\ log[p].val = SampleAt(Ordinal(p))
  /\ (pc = "done" /\ entry = "sample_chain") =>
       result.all_states = [j \in 1..chn.num_results |-> ChainSampleAt(j)]

C2_Witness ==
  /\ pc = "done" /\ entry = "sample_chain"
  /\ kernel.inc = 1 /\ chn.current_state = 0
  /\ chn.num_results = 3 /\ chn.num_burnin_steps = 0
  /\ chn.num_steps_between_results = 1
  /\ result.all_states = <<2, 4, 6>>

(***************************************************************************)
(* C3: the kernel results sample_fold returns are the caller's kernel's    *)
(* own: neither adapter's layer, and no field of either, is in them.       *)
(***************************************************************************)
C3_InnermostResults ==
  pc \in {"done", "chain_unpack"} =>
    /\ ret.final_kernel_results.layer = "kernel"
    /\ DOMAIN ret.final_kernel_results = {"layer", "n"}
    /\ ret.final_kernel_results = kr.inner_results.inner_results
    /\ entry = "sample_fold" =>
         result.final_kernel_results = ret.final_kernel_results

C3_Witness ==
  /\ pc = "done" /\ entry = "sample_fold"
  /\ fold.reducer_arg = NoneTree /\ fold.num_steps = 2
  /\ kr.layer = "WithReductions"
  /\ kr.inner_results.layer = "SampleDiscardingKernel"
  /\ result.final_kernel_results = [layer |-> "kernel", n |-> 2]

(***************************************************************************)
(* C4: reduction_results is None when reducer was None; otherwise it has   *)
(* the tree shape of the reducer argument, and holds at each reducer's     *)
(* place that reducer's finalize of the accumulator at the same place of   *)
(* streaming_calculations.                                                 *)
(***************************************************************************)
C4_ResultMirrorsReducer ==
  pc \in {"done", "chain_unpack"} =>
    IF fold.reducer_arg = NoneTree
    THEN ret.reduction_results = NoneTree
    ELSE /\ PathsOf(ret.reduction_results) = PathsOf(fold.reducer_arg)
         /\ \A q \in PathsOf(fold.reducer_arg) :
              LET r == At(fold.reducer_arg, q)
                  v == At(ret.reduction_results, q)
              IN /\ v.tag = r.tag
                 /\ r.tag = "leaf" =>
                      v.val = ReducerFinalize(
                                r.val, At(kr.streaming_calculations, q).val)

C4_Witness ==
  /\ pc = "done" /\ entry = "sample_fold"
  /\ fold.reducer_arg = NestedReducers
  /\ kernel.inc = 1 /\ fold.current_state = 0
  /\ fold.num_steps = 3 /\ fold.num_burnin_steps = 0
  /\ fold.num_steps_between_results = 1
  /\ ret.reduction_results = Node(<<Leaf(3), Node(<<Leaf(12), Leaf(4)>>)>>)

(***************************************************************************)
(* C5: a call warm-started with the end_state and final_kernel_results an  *)
(* earlier call returned does not raise, and with no burn-in and no        *)
(* thinning it ends where one longer cold-start run would: the kernel      *)
(* results go on counting from the ones handed in.                         *)
(***************************************************************************)
C5_WarmStartResumes ==
  (mode = "warm" /\ fold.previous_kernel_results = saved.final_kernel_results) =>
    /\ pc # "raised"
    /\ (/\ pc = "done"
        /\ fold.num_burnin_steps = 0
        /\ fold.num_steps_between_results = 0) =>
         /\ ret.final_kernel_results.n =
              fold.previous_kernel_results.n + fold.num_steps
         /\ ret.end_state = fold.current_state + kernel.inc * fold.num_steps

(***************************************************************************)
(* C6: what sample_chain returns has exactly one of three shapes, chosen   *)
(* by return_final_kernel_results and by whether trace_fn was None.        *)
(***************************************************************************)
ShapeFor(return_final_kernel_results, trace_fn_arg) ==
  IF return_final_kernel_results THEN "CheckpointableStatesAndTrace"
  ELSE IF trace_fn_arg = "None" THEN "all_states"
  ELSE "StatesAndTrace"

FieldsOf(shape) ==
  CASE shape = "CheckpointableStatesAndTrace" ->
         {"shape", "all_states", "trace", "final_kernel_results"}
    [] shape = "all_states" -> {"shape", "all_states"}
    [] shape = "StatesAndTrace" -> {"shape", "all_states", "trace"}

C6_ReturnShape ==
  (pc = "done" /\ entry = "sample_chain") =>
    /\ result.shape = ShapeFor(chn.return_final_kernel_results, chn.trace_fn_arg)
    /\ DOMAIN result = FieldsOf(result.shape)
    /\ result.shape = "CheckpointableStatesAndTrace" =>
         result.final_kernel_results = ret.final_kernel_results

C6_Witness ==
  /\ pc = "done" /\ entry = "sample_chain"
  /\ chn.return_final_kernel_results /\ chn.trace_fn_arg = "None"
  /\ result.shape = "CheckpointableStatesAndTrace"
  /\ chn.num_results = 2

(***************************************************************************)
(* C7, as claimed: every call with trace_fn=None returns the state history *)
(* alone, and every call with a trace_fn returns the pair (states, trace). *)
(***************************************************************************)
C7_AsClaimed ==
  (pc = "done" /\ entry = "sample_chain") =>
    /\ chn.trace_fn_arg = "None" =>
         /\ result.shape = "all_states"
         /\ Len(result.all_states) = chn.num_results
    /\ chn.trace_fn_arg \in {"user_kr", "user_state"} =>
         /\ result.shape = "StatesAndTrace"
         /\ Len(result.all_states) = chn.num_results
         /\ Len(result.trace) = chn.num_results
         /\ \A j \in 1..chn.num_results :
              result.trace[j] =
                TraceFnApply(chn.trace_fn_arg, result.all_states[j], exposed[j].kr)

(***************************************************************************)
(* C7, amended: with return_final_kernel_results false, trace_fn=None      *)
(* returns the state history alone and any other trace_fn the pair         *)
(* (states, trace); with it true the result also carries a trace, which is *)
(* the empty structure when trace_fn=None.  The states always number       *)
(* num_results and are the exposed samples in order, and a trace that is   *)
(* not suppressed has trace[j] = trace_fn(states[j], kernel_results[j]),   *)
(* kernel_results[j] being what the kernel under the reduction adapter     *)
(* returned for the step that produced states[j].                          *)
(***************************************************************************)
C7_StatesAndTrace ==
  (pc = "done" /\ entry = "sample_chain") =>
    /\ Len(result.all_states) = chn.num_results
    /\ Len(exposed) = chn.num_results
    /\ \A j \in 1..chn.num_results : result.all_states[j] = exposed[j].state
    /\ (chn.trace_fn_arg = "None" /\ HasAttr(result, "trace")) =>
         result.trace = <<>>
    /\ ~chn.return_final_kernel_results =>
         (HasAttr(result, "trace") <=> chn.trace_fn_arg # "None")
    /\ chn.trace_fn_arg # "None" =>
         /\ Len(result.trace) = chn.num_results
         /\ \A j \in 1..chn.num_results :
              result.trace[j] =
                TraceFnApply(chn.trace_fn_arg, result.all_states[j], exposed[j].kr)

C7_Witness ==
  /\ pc = "done" /\ entry = "sample_chain"
  /\ chn.trace_fn_arg = "user_state" /\ ~chn.return_final_kernel_results
  /\ kernel.inc = 1 /\ chn.num_results = 3
  /\ chn.num_burnin_steps = 1 /\ chn.num_steps_between_results = 0
  /\ chn.current_state = 0
  /\ result.trace = <<2, 3, 4>>
  /\ result.all_states = <<2, 3, 4>>

(***************************************************************************)
(* C8, as claimed: a call of sample_chain with an uncalibrated kernel      *)
(* emits exactly one warning and returns the shape a calibrated kernel's   *)
(* call would.                                                             *)
(***************************************************************************)
WarningCount(w) ==
  Cardinality({p \in 1..Len(warnings) : warnings[p] = w})

C8_AsClaimed ==
  (entry = "sample_chain" /\ ~kernel.is_calibrated) =>
    /\ Len(warnings) = 1
    /\ pc = "done" =>
         result.shape = ShapeFor(chn.return_final_kernel_results, chn.trace_fn_arg)

(***************************************************************************)
(* C8, amended: a call of sample_chain with an uncalibrated kernel emits   *)
(* the calibration warning exactly once, and besides it only the           *)
(* deprecation warning of a trace_fn left at its default; the call goes    *)
(* on as a calibrated kernel's would: it returns the shape its other       *)
(* arguments choose, and raises only what previous_kernel_results makes    *)
(* it raise.  A calibrated kernel's call emits no calibration warning.     *)
(***************************************************************************)
C8_CalibrationWarning ==
  entry = "sample_chain" =>
    /\ WarningCount("not_calibrated") = IF kernel.is_calibrated THEN 0 ELSE 1
    /\ Len(warnings) = (IF kernel.is_calibrated THEN 0 ELSE 1)
                       + (IF chn.trace_fn_arg = "DEFAULT" THEN 1 ELSE 0)
    /\ pc = "done" =>
         result.shape = ShapeFor(chn.return_final_kernel_results, chn.trace_fn_arg)
    /\ pc = "raised" => ~ColdStart

C8_Witness ==
  /\ pc = "done" /\ entry = "sample_chain" /\ ~kernel.is_calibrated
  /\ chn.trace_fn_arg = "user_kr" /\ fold.num_steps = 2
  /\ warnings = <<"not_calibrated">>
  /\ result.shape = "StatesAndTrace"

(***************************************************************************)
(* C9: trace_fn=None brings no deprecation warning and no trace; a         *)
(* trace_fn left at its default brings the deprecation warning, once, and  *)
(* traces the kernel results as they are; any other callback brings no     *)
(* deprecation warning and is used as given.  The states returned are      *)
(* those of the chain whatever the warnings.                               *)
(***************************************************************************)
C9_TracingModes ==
  entry = "sample_chain" =>
    /\ WarningCount("default_trace_deprecated") =
         IF chn.trace_fn_arg = "DEFAULT" THEN 1 ELSE 0
    /\ chn.no_trace <=> (chn.trace_fn_arg = "None")
    /\ pc = "done" =>
         /\ result.all_states = [j \in 1..chn.num_results |-> ChainSampleAt(j)]
         /\ (chn.trace_fn_arg = "None" /\ HasAttr(result, "trace")) =>
              result.trace = <<>>
         /\ chn.trace_fn_arg = "DEFAULT" =>
              result.trace = [j \in 1..chn.num_results |-> exposed[j].kr]
         /\ chn.trace_fn_arg \notin {"None", "DEFAULT"} =>
              result.trace =
                [j \in 1..chn.num_results |->
                   TraceFnApply(chn.trace_fn_arg, exposed[j].state, exposed[j].kr)]

C9_Witness ==
  /\ pc = "done" /\ entry = "sample_chain" /\ kernel.is_calibrated
  /\ chn.trace_fn_arg = "DEFAULT" /\ chn.num_results = 2
  /\ warnings = <<"default_trace_deprecated">>
  /\ result.trace[2].inner_results.n = 2

(***************************************************************************)
(* C10: in a call that bootstraps, each reducer's accumulator is created   *)
(* once, before any kernel step; one_step is applied to it once per        *)
(* exposed sample, in the order the samples are produced, right after the  *)
(* kernel step that produced the sample; finalize is called only when the  *)
(* loop is over, once per reducer, after its last one_step and on the      *)
(* accumulator of all num_steps updates, also when num_steps is 0.         *)
(***************************************************************************)
C10_ReducerLifecycle ==
  \A r \in ReducerIds :
    /\ pc \in {"loop", "chain_unpack", "done"} /\ ColdStart =>
         /\ Count("initialize", r) = 1
         /\ \A p \in Positions("initialize", r) : KernelStepsBefore(p) = 0
    /\ pc \in {"loop", "chain_unpack", "done", "raised"} =>
         /\ Count("one_step", r) = Len(exposed)
         /\ Len(exposed) = i
         /\ \A p \in Positions("one_step", r) :
              /\ log[p].val = exposed[Ordinal(p)].state
              /\ KernelStepsBefore(p) = StepsAt(Ordinal(p))
              /\ \E q \in 1..(p - 1) :
                   /\ log[q].ev = "kernel_step"
                   /\ log[q].val = log[p].val
                   /\ \A k \in (q + 1)..(p - 1) : log[k].ev = "one_step"
              /\ \A q \in Positions("initialize", r) : q < p
    /\ pc \in {"step_kernel", "loop", "raised"} => Count("finalize", r) = 0
    /\ pc \in {"chain_unpack", "done"} =>
         /\ Count("finalize", r) = 1
         /\ Count("one_step", r) = fold.num_steps
         /\ \A p \in Positions("finalize", r) :
              /\ log[p].val = fold.num_steps
              /\ \A q \in Positions("one_step", r) : q < p

C10_Witness ==
  /\ pc = "done" /\ entry = "sample_fold" /\ fold.reducer_arg = SingleReducer
  /\ fold.num_steps = 2 /\ fold.num_burnin_steps = 1
  /\ fold.num_steps_between_results = 1
  /\ Len(log) = 9
  /\ log[4].ev = "kernel_step" /\ log[5].ev = "one_step"
  /\ log[9] = Event("finalize", "r1", 2)

====
